---- MODULE Spec2Model ----
(***************************************************************************)
(* Model of the attendance API's synchronisation endpoints (src/main.py):  *)
(* the PostgreSQL tables they keep, the push handlers (POST /sync/...),    *)
(* the pull handlers (GET /sync/...), mark_attendance, and a desktop       *)
(* client that chains incremental pulls.                                   *)
(*                                                                         *)
(* A handler serves one request on a connection of its own, so a handler   *)
(* is one action.  A handler is written as an operator from the tables and *)
(* the request to the new tables and the HTTP response; the action applies *)
(* it.                                                                     *)
(***************************************************************************)
EXTENDS Integers, Sequences, FiniteSets, TLC

VARIABLES
    students,          \* table students: a set of rows, sbrn is the primary key
    timetable_slots,   \* table timetable_slots: a set of rows (id is the only key startup declares)
    subjects,          \* table subjects: primary key (subject_id, semester, department)
    attendance_daily,  \* table attendance_daily: unique index on the five key columns
    tt_key_unique,     \* does the deployed timetable_slots carry a unique index on its five key columns
    now,               \* the authority's clock (datetime.utcnow / CURRENT_TIMESTAMP)
    resp,              \* the response of the last request served
    cursor,            \* desktop client: the latest_sync it keeps from its last non-empty pull
    local,             \* desktop client: per sbrn, the version and is_deleted it last received
    workload,          \* which endpoint family the clients of this behaviour use
    txn,               \* per concurrent caller, the open transaction of its request
    received           \* attendance client: the rows its pulls have returned

vars == <<students, timetable_slots, subjects, attendance_daily, tt_key_unique,
          now, resp, cursor, local, workload, txn, received>>

----------------------------------------------------------------------------
(* Bounds of the model. *)

MaxTime == 2       \* timestamps are 1..MaxTime; 0 stands for SQL NULL / JSON null
MaxVersion == 2    \* versions a client sends are 1..MaxVersion
MaxBatch == 2      \* records per push batch

Times == 1..MaxTime
Versions == 1..MaxVersion

(* The default r.get("version", 1) of sync_students. *)
DefaultVersion == 1

----------------------------------------------------------------------------
(* Generic helpers. *)

(* SQL NULL in a text column. *)
NullText == "NULL"

SeqsUpTo(S, n) == UNION {[1..k -> S] : k \in 0..n}

Range(s) == {s[i] : i \in DOMAIN s}

(* The rows in any order at all. *)
AnyOrder(rows) ==
    {s \in [1..Cardinality(rows) -> rows] :
        \A i, j \in DOMAIN s : i # j => s[i] # s[j]}

(* ORDER BY last_updated ASC: every ordering of the rows that is ascending  *)
(* in last_updated.  SQL leaves the order of ties open, so all of them.     *)
OrderByLastUpdated(rows) ==
    {s \in [1..Cardinality(rows) -> rows] :
        /\ \A i, j \in DOMAIN s : i # j => s[i] # s[j]
        /\ \A i, j \in DOMAIN s : i < j => s[i].last_updated <= s[j].last_updated}

(* datetime.isoformat() and datetime.fromisoformat(): a timestamp becomes a *)
(* string and back.  A query parameter is absent, the empty string, a       *)
(* string fromisoformat rejects, or an ISO string.                          *)
NoParam == [kind |-> "none", t |-> 0]
EmptyParam == [kind |-> "empty", t |-> 0]
BadParam == [kind |-> "bad", t |-> 0]
isoformat(t) == [kind |-> "iso", t |-> t]
IsoOrNone(t) == IF t # 0 THEN isoformat(t) ELSE NoParam
CanParse(s) == s.kind = "iso"
fromisoformat(s) == s.t
Truthy(s) == s.kind \in {"bad", "iso"}
SinceParams == {NoParam, EmptyParam, BadParam} \cup {isoformat(t) : t \in Times}

(* The response of a request.  Every response has the same fields; the ones *)
(* an endpoint does not return are 0, NoParam or <<>>.                     *)
Response(op, status, http, n, since, latest, records) ==
    [op |-> op, status |-> status, http |-> http, n |-> n,
     since |-> since, latest_sync |-> latest, records |-> records]

NoResponse == Response("none", "none", 0, 0, NoParam, NoParam, <<>>)

(* raise HTTPException(status_code=500, detail=str(e)) *)
Http500(op, since) == Response(op, "error", 500, 0, since, NoParam, <<>>)

----------------------------------------------------------------------------
(* POST /sync/students *)

Sbrns == {"S001", "S002"}

(* The JSON object of one pushed student: `present` names the keys it      *)
(* carries.  name stands for every payload column (name, semester,         *)
(* section, department, course, batch, admission_date, year_semester,      *)
(* academic_status): the statement treats them alike.                      *)
StudentJson(present, sbrn, name, version, lu, del, delat) ==
    [present |-> present, sbrn |-> sbrn, name |-> name, version |-> version,
     last_updated |-> lu, is_deleted |-> del, deleted_at |-> delat]

(* name, is_deleted, deleted_at as a client sends them together *)
StudentPayloads == {<<"Alice", 0, 0>>, <<"Alicia", 1, 1>>}

StudentJsonOf(sbrn, p, hasV, v, hasT, t) ==
    StudentJson({"sbrn", "name"}
                  \cup (IF hasV THEN {"version"} ELSE {})
                  \cup (IF hasT THEN {"last_updated"} ELSE {})
                  \cup (IF p[2] = 1 THEN {"is_deleted", "deleted_at"} ELSE {}),
                sbrn, p[1], v, t, p[2], p[3])

(* A record without sbrn. *)
NoSbrnJson == StudentJson({"name", "version"}, "", "Alice", 1, 0, 0, 0)

(* Records as a client may send them one at a time. *)
StudentRecords ==
    {StudentJsonOf(k, p, TRUE, v, TRUE, t) :
        k \in Sbrns, p \in StudentPayloads, v \in Versions, t \in Times}
    \cup {StudentJsonOf(k, p, TRUE, v, FALSE, 0) :
        k \in Sbrns, p \in StudentPayloads, v \in Versions}
    \cup {StudentJsonOf(k, <<"Alice", 0, 0>>, FALSE, 0, FALSE, 0) : k \in Sbrns}
    \cup {NoSbrnJson}

(* Records of the batches of more than one record. *)
StudentBatchRecords ==
    {StudentJsonOf("S001", p, TRUE, v, FALSE, 0) :
        p \in StudentPayloads, v \in {1, MaxVersion}}
    \cup {StudentJsonOf("S002", <<"Alice", 0, 0>>, TRUE, 1, FALSE, 0), NoSbrnJson}

StudentBatches ==
    SeqsUpTo(StudentBatchRecords, MaxBatch) \cup {<<r>> : r \in StudentRecords}

(* r.get(key) / r.get(key, default) *)
Get(r, key, default) == IF key \in r.present THEN r[key] ELSE default

(* "last_updated": datetime.utcnow(), whatever the record carries *)
ServerStampStudent(r, clock) ==
    [sbrn |-> r.sbrn,
     name |-> Get(r, "name", ""),
     last_updated |-> clock,
     version |-> Get(r, "version", DefaultVersion),
     is_deleted |-> Get(r, "is_deleted", 0),
     deleted_at |-> Get(r, "deleted_at", 0)]

(* normalized.append({...}) of sync_students, for one record *)
NormalizeStudent(r, clock) ==
    [sbrn |-> r.sbrn,
     name |-> Get(r, "name", ""),
     last_updated |-> IF Get(r, "last_updated", 0) # 0
                      THEN r.last_updated ELSE clock,
     version |-> Get(r, "version", DefaultVersion),
     is_deleted |-> Get(r, "is_deleted", 0),
     deleted_at |-> Get(r, "deleted_at", 0)]

(* No validation: every record is kept. *)
KeepEveryRecord(r) == TRUE

(* if not r.get("sbrn"): continue *)
HasSbrn(r) == Get(r, "sbrn", "") # ""

RECURSIVE NormalizeStudents(_, _)
NormalizeStudents(records, clock) ==
    IF records = <<>> THEN <<>>
    ELSE LET rest == NormalizeStudents(Tail(records), clock)
         IN  IF HasSbrn(Head(records))
             THEN <<NormalizeStudent(Head(records), clock)>> \o rest
             ELSE rest

(* ... DO UPDATE SET every column but name ... *)
KeepNameUpsert(tbl, rec) ==
    LET old == {r \in tbl : r.sbrn = rec.sbrn}
    IN  IF old = {} THEN tbl \cup {rec}
        ELSE IF \E r \in old : r.version < rec.version
             THEN (tbl \ old) \cup {[rec EXCEPT !.name = r.name] : r \in old}
             ELSE tbl

(* ... WHERE students.version <= EXCLUDED.version *)
StaleStudentUpsert(tbl, rec) ==
    LET old == {r \in tbl : r.sbrn = rec.sbrn}
    IN  IF old = {} THEN tbl \cup {rec}
        ELSE IF \E r \in old : r.version <= rec.version
             THEN (tbl \ old) \cup {rec}
             ELSE tbl

(* INSERT INTO students ... ON CONFLICT (sbrn) DO UPDATE SET ...            *)
(* WHERE students.version < EXCLUDED.version, for one row                  *)
UpsertStudent(tbl, rec) ==
    LET old == {r \in tbl : r.sbrn = rec.sbrn}
    IN  IF old = {} THEN tbl \cup {rec}
        ELSE IF \E r \in old : r.version < rec.version
             THEN (tbl \ old) \cup {rec}
             ELSE tbl

(* The batch given up at the first record the statement does not take. *)
RECURSIVE StopAtStale(_, _)
StopAtStale(tbl, recs) ==
    IF recs = <<>> THEN tbl
    ELSE IF UpsertStudent(tbl, Head(recs)) = tbl THEN tbl
    ELSE StopAtStale(UpsertStudent(tbl, Head(recs)), Tail(recs))

(* execute_batch(cur, query, normalized): the statement once per record,   *)
(* in order, in the connection's open transaction                          *)
RECURSIVE ExecuteStudentBatch(_, _)
ExecuteStudentBatch(tbl, recs) ==
    IF recs = <<>> THEN tbl
    ELSE ExecuteStudentBatch(UpsertStudent(tbl, Head(recs)), Tail(recs))

(* Where a request can hit a storage failure. *)
PushFaults == {"none", "connect", "batch"}

(* The handler with an empty batch refused as a client error. *)
RejectEmptyBatch(tbl, clock, records, fault) ==
    LET normalized == NormalizeStudents(records, clock)
        op == "sync_students"
    IN  IF records = <<>>
        THEN [students |-> tbl,
              resp |-> Response(op, "error", 400, 0, NoParam, NoParam, <<>>)]
        ELSE IF normalized = <<>>
        THEN [students |-> tbl,
              resp |-> Response(op, "no_valid_records", 200, 0, NoParam, NoParam, <<>>)]
        ELSE IF fault # "none"
        THEN [students |-> tbl, resp |-> Http500(op, NoParam)]
        ELSE [students |-> ExecuteStudentBatch(tbl, normalized),
              resp |-> Response(op, "success", 200, Len(normalized),
                                NoParam, NoParam, <<>>)]

(* The handler: the students table and the response it leaves.  A fault    *)
(* "connect" makes connect_db() raise (outside the try: the framework      *)
(* answers 500); "batch" makes execute_batch or commit raise, and the      *)
(* handler rolls back.                                                     *)
sync_students(tbl, clock, records, fault) ==
    LET normalized == NormalizeStudents(records, clock)
        op == "sync_students"
    IN  IF records = <<>>
        THEN [students |-> tbl,
              resp |-> Response(op, "no_data", 200, 0, NoParam, NoParam, <<>>)]
        ELSE IF normalized = <<>>
        THEN [students |-> tbl,
              resp |-> Response(op, "no_valid_records", 200, 0, NoParam, NoParam, <<>>)]
        ELSE IF fault # "none"
        THEN [students |-> tbl, resp |-> Http500(op, NoParam)]
        ELSE [students |-> ExecuteStudentBatch(tbl, normalized),
              resp |-> Response(op, "success", 200, Len(normalized),
                                NoParam, NoParam, <<>>)]

----------------------------------------------------------------------------
(* GET /sync/students: the rows and the query *)

PullFaults == {"none", "connect", "query"}

(* One row of the JSON response. *)
StudentJsonRow(r) ==
    [sbrn |-> r.sbrn, name |-> r.name,
     last_updated |-> IsoOrNone(r.last_updated),
     version |-> r.version, is_deleted |-> r.is_deleted,
     deleted_at |-> IsoOrNone(r.deleted_at)]

(* WHERE last_updated >= %s *)
SelectSinceInclusive(tbl, since) ==
    IF Truthy(since)
    THEN {r \in tbl : r.last_updated >= fromisoformat(since)}
    ELSE tbl

(* The rows the SELECT of a pull matches: WHERE last_updated > %s when     *)
(* `since` is truthy, every row otherwise.                                 *)
SelectSince(tbl, since) ==
    IF Truthy(since)
    THEN {r \in tbl : r.last_updated > fromisoformat(since)}
    ELSE tbl

----------------------------------------------------------------------------
(* POST /sync/timetable (sync_timetable, the handler the route resolves to) *)

Departments == {"CSE"}
Semesters == {"3"}
Sections == {"A"}
Days == {"Mon"}
Periods == {1, 2}

(* subject_id, type and room as a client sends them together; room stands  *)
(* for period_len, faculty_id and room, which the statement treats alike.  *)
SlotPayloads == {<<"CS101", "Theory", "R1">>, <<"CS102", "Lab", "R2">>}

SlotKeyFields == {"department", "semester", "section", "day", "period_no"}
SlotFields == SlotKeyFields \cup {"period_len", "type", "subject_id",
                                   "faculty_id", "room", "last_updated", "version"}

SlotJson(present, dep, sem, sec, day, per, p, lu, version) ==
    [present |-> present, department |-> dep, semester |-> sem, section |-> sec,
     day |-> day, period_no |-> per, subject_id |-> p[1], type |-> p[2],
     room |-> p[3], last_updated |-> lu, version |-> version]

(* A record without the key `department`. *)
NoDepartmentJson ==
    SlotJson(SlotFields \ {"department"}, "", "3", "A", "Mon", 1,
             <<"CS101", "Theory", "R1">>, 1, 1)

SlotRecords ==
    {SlotJson(SlotFields, dep, sem, sec, day, per, p, t, v) :
        dep \in Departments, sem \in Semesters, sec \in Sections, day \in Days,
        per \in Periods, p \in SlotPayloads, t \in Times, v \in Versions}

(* Records of the batches of more than one record. *)
SlotBatchRecords ==
    {r \in SlotRecords : /\ r.period_no = 1 /\ r.last_updated = 1
                         /\ r.version \in {1, MaxVersion}}
    \cup {r \in SlotRecords : /\ r.period_no = 2 /\ r.last_updated = 1
                              /\ r.version = 1 /\ r.subject_id = "CS101"}
    \cup {NoDepartmentJson}

SlotBatches ==
    SeqsUpTo(SlotBatchRecords, MaxBatch)
    \cup {<<r>> : r \in {x \in SlotRecords :
                            x.period_no = 2 => x.subject_id = "CS101"}}

SlotKey(r) == <<r.department, r.semester, r.section, r.day, r.period_no>>

(* The row the VALUES list of the statement builds; id SERIAL is never     *)
(* read by any statement, it only tells rows apart.                        *)
SlotRow(id, r) ==
    [id |-> id, department |-> r.department, semester |-> r.semester,
     section |-> r.section, day |-> r.day, period_no |-> r.period_no,
     subject_id |-> r.subject_id, type |-> r.type, room |-> r.room,
     last_updated |-> r.last_updated, version |-> r.version]

FreshId(tbl) ==
    CHOOSE i \in 1..(Cardinality(tbl) + 1) : \A r \in tbl : r.id # i

(* ... DO UPDATE SET ... with no WHERE clause *)
BlindSlotUpsert(tbl, rec) ==
    LET old == {r \in tbl : SlotKey(r) = SlotKey(rec)}
    IN  IF old = {} THEN tbl \cup {SlotRow(FreshId(tbl), rec)}
        ELSE (tbl \ old) \cup {SlotRow(r.id, rec) : r \in old}

(* INSERT INTO timetable_slots ... ON CONFLICT (department, semester,      *)
(* section, day, period_no) DO UPDATE SET ... WHERE timetable_slots.version *)
(* < EXCLUDED.version, for one record, on a table that has the unique index *)
UpsertSlot(tbl, rec) ==
    LET old == {r \in tbl : SlotKey(r) = SlotKey(rec)}
    IN  IF old = {} THEN tbl \cup {SlotRow(FreshId(tbl), rec)}
        ELSE (tbl \ {r \in old : r.version < rec.version})
             \cup {SlotRow(r.id, rec) : r \in {o \in old : o.version < rec.version}}

RECURSIVE ExecuteSlotBatch(_, _)
ExecuteSlotBatch(tbl, recs) ==
    IF recs = <<>> THEN tbl
    ELSE ExecuteSlotBatch(UpsertSlot(tbl, Head(recs)), Tail(recs))

(* What execute_batch raises: psycopg2 raises KeyError for a record that   *)
(* lacks a key the statement names; PostgreSQL rejects ON CONFLICT (...)   *)
(* when no unique index matches the five columns.                          *)
SlotBatchRaises(unique, records, fault) ==
    IF \E i \in DOMAIN records : ~(SlotFields \subseteq records[i].present)
    THEN "KeyError"
    ELSE IF ~unique THEN "InvalidColumnReference"
    ELSE IF fault = "batch" THEN "DatabaseError"
    ELSE "nothing"

(* DELETE FROM subjects, then INSERT ... SELECT DISTINCT ...: the catalog   *)
(* rebuilt from the stored slots.                                          *)
RebuildSubjects(subj, slots) ==
    LET cands == {[subject_id |-> r.subject_id, subject_name |-> r.subject_id,
                   department |-> r.department, semester |-> r.semester,
                   type |-> r.type] : r \in {x \in slots : x.subject_id # "NULL"}}
        keys == {<<c.subject_id, c.semester, c.department>> : c \in cands}
    IN  {a \in SUBSET cands :
            /\ {<<c.subject_id, c.semester, c.department>> : c \in a} = keys
            /\ \A c, d \in a :
                  (c.subject_id = d.subject_id /\ c.semester = d.semester
                   /\ c.department = d.department) => c = d}

(* No derivation: the catalog stays as it is. *)
NoAutoHeal(subj, slots) == {subj}

(* AUTO-HEAL SUBJECTS: INSERT INTO subjects SELECT DISTINCT subject_id,    *)
(* subject_id, department, semester, type FROM timetable_slots WHERE       *)
(* subject_id IS NOT NULL ON CONFLICT DO NOTHING.  When two selected rows  *)
(* share the primary key, the one inserted first stays: either may.        *)
SubjectKey(s) == <<s.subject_id, s.semester, s.department>>

SubjectCandidates(slots) ==
    {[subject_id |-> r.subject_id, subject_name |-> r.subject_id,
      department |-> r.department, semester |-> r.semester, type |-> r.type] :
        r \in {x \in slots : x.subject_id # NullText}}

AutoHealSubjects(subj, slots) ==
    LET cands == {c \in SubjectCandidates(slots) :
                     \A s \in subj : SubjectKey(s) # SubjectKey(c)}
        keys == {SubjectKey(c) : c \in cands}
    IN  {subj \cup add : add \in
            {a \in SUBSET cands :
                /\ {SubjectKey(c) : c \in a} = keys
                /\ \A c, d \in a : SubjectKey(c) = SubjectKey(d) => c = d}}

TimetableFaults == {"none", "connect", "batch", "derive"}

(* The handler: the outcomes it may have, each the two tables and the      *)
(* response.  The slots are committed before the subjects are derived; a   *)
(* fault "derive" makes the second statement or commit raise.              *)
TwoCommits(slots, subj, unique, records, fault) ==
    LET op == "sync_timetable"
        applied == ExecuteSlotBatch(slots, records)
    IN  IF fault = "derive"
        THEN {[timetable_slots |-> applied, subjects |-> subj,
               resp |-> Http500(op, NoParam)]}
        ELSE {[timetable_slots |-> applied, subjects |-> s,
               resp |-> Response(op, "success", 200, Len(records),
                                 NoParam, NoParam, <<>>)] :
                 s \in AutoHealSubjects(subj, applied)}

sync_timetable(slots, subj, unique, records, fault) ==
    LET op == "sync_timetable"
        unchanged(r) == {[timetable_slots |-> slots, subjects |-> subj, resp |-> r]}
    IN  IF records = <<>>
        THEN unchanged(Response(op, "no_data", 200, 0, NoParam, NoParam, <<>>))
        ELSE IF fault = "connect" THEN unchanged(Http500(op, NoParam))
        ELSE IF SlotBatchRaises(unique, records, fault) # "nothing"
        THEN unchanged(Http500(op, NoParam))
        ELSE TwoCommits(slots, subj, unique, records, fault)

----------------------------------------------------------------------------
(* GET /sync/timetable: the rows *)

SlotJsonRow(r) ==
    [department |-> r.department, semester |-> r.semester, section |-> r.section,
     day |-> r.day, period_no |-> r.period_no, subject_id |-> r.subject_id,
     type |-> r.type, room |-> r.room,
     last_updated |-> IsoOrNone(r.last_updated), version |-> r.version]

----------------------------------------------------------------------------
(* POST /mark-attendance *)

(* LOWER() and TRIM() of SQL and str.lower() of Python, on the strings of  *)
(* the model.                                                              *)
Lower(s) ==
    CASE s = "CSE" -> "cse"
      [] s = " CSE" -> " cse"
      [] s = "A" -> "a"
      [] s = "ALL" -> "all"
      [] s = "All" -> "all"
      [] s = "Mon" -> "mon"
      [] s = "Tue" -> "tue"
      [] s = "CS101" -> "cs101"
      [] s = "CS102" -> "cs102"
      [] s = "Alice" -> "alice"
      [] s = "Alicia" -> "alicia"
      [] OTHER -> s

Trim(s) ==
    CASE s = " CSE" -> "CSE"
      [] s = " cse" -> "cse"
      [] OTHER -> s

LowerTrim(s) == Lower(Trim(s))

(* datetime.strptime(date, "%Y-%m-%d").strftime("%a"); "" when strptime    *)
(* raises ValueError                                                       *)
DayShort(date) ==
    CASE date = "2024-01-01" -> "Mon"
      [] date = "2024-01-02" -> "Tue"
      [] OTHER -> ""

AttSections == {"ALL", "a"}
AttDates == {"2024-01-01", "2024-01-02", "01/01/2024"}
AttSubjects == {"CS101"}

(* data.attendance: StudentAttendance(sbrn, present) *)
AttendanceLists ==
    SeqsUpTo({[sbrn |-> "S001", present |-> TRUE], [sbrn |-> "S001", present |-> FALSE],
              [sbrn |-> "S002", present |-> TRUE]}, MaxBatch)

(* Every list for section "ALL" on the date that has a period, one list   *)
(* for the other dates and for the lower-case section on that date.       *)
AttendanceRequests ==
    {r \in [department : Departments, semester : Semesters, section : AttSections,
            subject : AttSubjects, date : AttDates, attendance : AttendanceLists] :
        /\ (r.date # "2024-01-01" \/ r.section # "ALL")
              => r.attendance = <<[sbrn |-> "S001", present |-> TRUE]>>
        /\ r.section # "ALL" => r.date = "2024-01-01"}

AttKey(r) == <<r.sbrn, r.subject, r.semester, r.section, r.class_date>>

(* The period check without its section arm. *)
PeriodOfAnySection(slots, data) ==
    \E t \in slots :
        /\ Lower(Trim(t.department)) = Lower(Trim(data.department))
        /\ Lower(Trim(t.semester)) = Lower(Trim(data.semester))
        /\ Lower(Trim(t.subject_id)) = Lower(Trim(data.subject))
        /\ Lower(Trim(t.day)) = Lower(Trim(DayShort(data.date)))

(* CHECK IF PERIOD EXISTS: the two SELECT 1 FROM timetable_slots queries *)
PeriodExists(slots, data) ==
    LET day_short == DayShort(data.date)
        section_value == Lower(data.section)
    IN  \E t \in slots :
            /\ LowerTrim(t.department) = LowerTrim(data.department)
            /\ LowerTrim(t.semester) = LowerTrim(data.semester)
            /\ LowerTrim(t.subject_id) = LowerTrim(data.subject)
            /\ LowerTrim(t.day) = LowerTrim(day_short)
            /\ (section_value # "all" =>
                    LowerTrim(t.section) = LowerTrim(data.section))

(* INSERT INTO attendance_daily ... ON CONFLICT (sbrn, subject, semester,  *)
(* section, class_date) DO UPDATE SET attended = EXCLUDED.attended,        *)
(* last_updated = CURRENT_TIMESTAMP, for one element of data.attendance    *)
UpsertAttendance(tbl, data, rec, clock) ==
    LET row == [sbrn |-> rec.sbrn, subject |-> data.subject,
                semester |-> data.semester, section |-> data.section,
                class_date |-> data.date,
                attended |-> IF rec.present THEN 1 ELSE 0,
                last_updated |-> clock]
    IN  {r \in tbl : AttKey(r) # AttKey(row)} \cup {row}

RECURSIVE SaveAttendance(_, _, _, _)
SaveAttendance(tbl, data, recs, clock) ==
    IF recs = <<>> THEN tbl
    ELSE SaveAttendance(UpsertAttendance(tbl, data, Head(recs), clock),
                        data, Tail(recs), clock)

AttendanceFaults == {"none", "connect", "batch"}

mark_attendance(att, slots, clock, data, fault) ==
    LET op == "mark_attendance"
    IN  IF fault = "connect" \/ DayShort(data.date) = ""
        THEN [attendance_daily |-> att, resp |-> Http500(op, NoParam)]
        ELSE IF ~PeriodExists(slots, data)
        THEN [attendance_daily |-> att,
              resp |-> Response(op, "no_period", 200, 0, NoParam, NoParam, <<>>)]
        ELSE IF fault = "batch"
        THEN [attendance_daily |-> att, resp |-> Http500(op, NoParam)]
        ELSE [attendance_daily |-> SaveAttendance(att, data, data.attendance, clock),
              resp |-> Response(op, "saved", 200, 0, NoParam, NoParam, <<>>)]

----------------------------------------------------------------------------
(* GET /sync/attendance: the rows *)

AttendanceJsonRow(r) ==
    [sbrn |-> r.sbrn, subject |-> r.subject, semester |-> r.semester,
     section |-> r.section, class_date |-> r.class_date, attended |-> r.attended,
     last_updated |-> IsoOrNone(r.last_updated)]

----------------------------------------------------------------------------
(* The pull handlers: sync_students_from_cloud, get_timetable_sync and     *)
(* sync_attendance_from_cloud run the same steps on their own table.       *)

(* The JSON object a pull handler builds from one fetched row. *)
JsonRow(op, r) ==
    IF op = "sync_students_from_cloud" THEN StudentJsonRow(r)
    ELSE IF op = "get_timetable_sync" THEN SlotJsonRow(r)
    ELSE AttendanceJsonRow(r)

(* latest_sync = rows[0]["last_updated"].isoformat() *)
FirstRowWatermark(op, since, rows) ==
    Response(op, "success", 200, Len(rows), since,
             IF rows # <<>> THEN isoformat(rows[1].last_updated)
                            ELSE NoParam,
             [i \in DOMAIN rows |-> JsonRow(op, rows[i])])

(* The body of a pull handler after the query: `rows` is cur.fetchall().   *)
PullResponse(op, since, rows) ==
    Response(op, "success", 200, Len(rows), since,
             IF rows # <<>> THEN isoformat(rows[Len(rows)].last_updated)
                            ELSE NoParam,
             [i \in DOMAIN rows |-> JsonRow(op, rows[i])])

(* The try block of a pull handler: what it raises, if anything.  The      *)
(* HTTPException(400) of the parse is raised inside the try.               *)
PullRaises(since, fault) ==
    IF Truthy(since) /\ ~CanParse(since) THEN "HTTPException400"
    ELSE IF fault = "query" THEN "DatabaseError"
    ELSE "nothing"

(* except Exception as e: conn.close(); raise HTTPException(500, str(e)):  *)
(* HTTPException is an Exception, so the clause catches the 400 as well.   *)
PullExcept(op, since, raised) == Http500(op, since)

(* A pull handler: the responses it may give (one per order of the ties). *)
(* A fault "connect" makes connect_db() raise before the try.              *)
PullHandler(op, tbl, since, fault) ==
    IF fault = "connect" THEN {Http500(op, since)}
    ELSE IF PullRaises(since, fault) # "nothing"
    THEN {PullExcept(op, since, PullRaises(since, fault))}
    ELSE {PullResponse(op, since, rows) :
             rows \in OrderByLastUpdated(SelectSince(tbl, since))}

(* ... FROM students WHERE is_deleted = 0 ... *)
HideDeletedStudents(tbl, since, fault) ==
    PullHandler("sync_students_from_cloud", {r \in tbl : r.is_deleted = 0},
                since, fault)

sync_students_from_cloud(tbl, since, fault) ==
    PullHandler("sync_students_from_cloud", tbl, since, fault)

get_timetable_sync(tbl, last_sync, fault) ==
    PullHandler("get_timetable_sync", tbl, last_sync, fault)

sync_attendance_from_cloud(tbl, since, fault) ==
    PullHandler("sync_attendance_from_cloud", tbl, since, fault)

----------------------------------------------------------------------------
(* A desktop client that pulls students incrementally (spec, section 2):   *)
(* it passes the latest_sync of its last non-empty pull as `since`, and    *)
(* applies every record it receives to its local copy.                     *)

RECURSIVE ApplyToLocal(_, _)
ApplyToLocal(loc, records) ==
    IF records = <<>> THEN loc
    ELSE ApplyToLocal(
            [loc EXCEPT ![Head(records).sbrn] =
                [version |-> Head(records).version,
                 is_deleted |-> Head(records).is_deleted]],
            Tail(records))

NextCursor(cur, response) ==
    IF response.latest_sync # NoParam THEN response.latest_sync ELSE cur

----------------------------------------------------------------------------
(* Two sync_students calls served at the same time.  Each call runs its    *)
(* statements in one transaction on a connection of its own (psycopg2      *)
(* opens the transaction at the first statement, PostgreSQL's default      *)
(* isolation READ COMMITTED).  INSERT ... ON CONFLICT (sbrn) DO UPDATE     *)
(* locks the row of its key, or the key it inserts, until the transaction  *)
(* ends; a statement whose key another open transaction holds waits.       *)

Clients == {"c1", "c2"}

IdleTxn == [state |-> "idle", batch |-> <<>>, pos |-> 0, writes |-> {}, locks |-> {}]

(* The records the concurrent pushers send; they carry their last_updated. *)
ConcurrentRecords ==
    {StudentJsonOf("S001", <<"Alice", 0, 0>>, TRUE, v, TRUE, 1) : v \in {1, MaxVersion}}
    \cup {StudentJsonOf("S002", <<"Alice", 0, 0>>, TRUE, 1, TRUE, 1)}

ConcurrentBatches ==
    {<<r>> : r \in ConcurrentRecords}
    \cup {<<a, b>> : a \in {x \in ConcurrentRecords : x.sbrn = "S001"},
                    b \in {x \in ConcurrentRecords : x.sbrn = "S002"}}
    \cup {<<b, a>> : a \in {x \in ConcurrentRecords : x.sbrn = "S001" /\ x.version = 1},
                    b \in {x \in ConcurrentRecords : x.sbrn = "S002"}}

(* What a statement of transaction t reads: the committed rows, and for    *)
(* the keys t holds its own rows.                                          *)
Snapshot(committed, t) == {r \in committed : r.sbrn \notin t.locks} \cup t.writes

(* No row lock at all. *)
NoRowLocks(all, c, key) == TRUE

(* No other open transaction holds the key. *)
RowLockFree(all, c, key) == \A d \in Clients \ {c} : key \notin all[d].locks

(* Is c waiting for a key that d holds. *)
WaitsFor(all, c, d) ==
    /\ all[c].state = "open"
    /\ all[c].pos <= Len(all[c].batch)
    /\ all[c].batch[all[c].pos].sbrn \in all[d].locks

----------------------------------------------------------------------------
(* The desktop endpoints and the start of the process.                     *)

(* How many rows timetable_slots holds at most, where nothing bounds them. *)
MaxSlots == 3

(* version INTEGER DEFAULT 1 of timetable_slots *)
SlotDefaultVersion == 1

DesktopFaults == {"none", "connect", "execute"}

(* The payload of a single-slot save: payload[...] for the five key        *)
(* columns, payload.get(...) for the others.                               *)
SavePayloads ==
    {SlotJson(SlotKeyFields \cup opt, dep, sem, sec, day, per, p, 0, 0) :
        dep \in Departments, sem \in Semesters, sec \in Sections, day \in Days,
        per \in Periods, opt \in {{}, {"subject_id", "type", "room"}},
        p \in {<<"CS101", "Theory", "R1">>}}
    \cup {SlotJson(SlotKeyFields \ {"department"}, "", "3", "A", "Mon", 1,
                   <<"CS101", "Theory", "R1">>, 0, 0)}

(* The row INSERT INTO timetable_slots (department, ..., room) VALUES ...   *)
(* builds: last_updated and version take their column defaults.            *)
SavedRow(id, payload, clock) ==
    SlotRow(id, [department |-> payload.department, semester |-> payload.semester,
                 section |-> payload.section, day |-> payload.day,
                 period_no |-> payload.period_no,
                 subject_id |-> Get(payload, "subject_id", NullText),
                 type |-> Get(payload, "type", NullText),
                 room |-> Get(payload, "room", NullText),
                 last_updated |-> clock, version |-> SlotDefaultVersion])

(* INSERT ... ON CONFLICT DO NOTHING names no conflict target: the row is   *)
(* skipped only when a unique index of the table rejects it, and the only  *)
(* one startup declares is the primary key id.                             *)
InsertOrDoNothing(tbl, unique, row) ==
    IF unique /\ \E r \in tbl : SlotKey(r) = SlotKey(row) THEN tbl
    ELSE tbl \cup {row}

(* save_timetable_from_desktop(payload) *)
save_timetable_from_desktop(slots, unique, clock, payload, fault) ==
    LET op == "save_timetable_from_desktop"
    IN  IF \/ fault # "none"
           \/ ~(SlotKeyFields \subseteq payload.present)
        THEN [timetable_slots |-> slots, resp |-> Http500(op, NoParam)]
        ELSE [timetable_slots |->
                 InsertOrDoNothing(slots, unique,
                                   SavedRow(FreshId(slots), payload, clock)),
              resp |-> Response(op, "success", 200, 0, NoParam, NoParam, <<>>)]

(* The query parameters of DELETE /sync/timetable. *)
ResetParams == {<<"CSE", "3">>, <<"cse", "3">>, <<"CSE", "5">>}

(* A DELETE that compares department and semester as stored. *)
DeleteExactCase(slots, department, semester, fault) ==
    LET op == "reset_timetable_from_desktop"
    IN  IF fault # "none"
        THEN [timetable_slots |-> slots, resp |-> Http500(op, NoParam)]
        ELSE [timetable_slots |->
                 {r \in slots : ~ /\ r.department = department
                                  /\ r.semester = semester},
              resp |-> Response(op, "deleted", 200, 0, NoParam, NoParam, <<>>)]

(* reset_timetable_from_desktop(department, semester): DELETE FROM          *)
(* timetable_slots WHERE LOWER(department)=LOWER(%s) AND                    *)
(* LOWER(semester)=LOWER(%s)                                               *)
reset_timetable_from_desktop(slots, department, semester, fault) ==
    LET op == "reset_timetable_from_desktop"
    IN  IF fault # "none"
        THEN [timetable_slots |-> slots, resp |-> Http500(op, NoParam)]
        ELSE [timetable_slots |->
                 {r \in slots : ~ /\ Lower(r.department) = Lower(department)
                                  /\ Lower(r.semester) = Lower(semester)},
              resp |-> Response(op, "deleted", 200, 0, NoParam, NoParam, <<>>)]

(* full_reset_cloud(): TRUNCATE TABLE ... RESTART IDENTITY CASCADE for      *)
(* every table of schema public but users, in one transaction.             *)
full_reset_cloud(stu, slots, subj, att, fault) ==
    LET op == "full_reset_cloud"
    IN  IF fault # "none"
        THEN [students |-> stu, timetable_slots |-> slots, subjects |-> subj,
              attendance_daily |-> att, resp |-> Http500(op, NoParam)]
        ELSE [students |-> {}, timetable_slots |-> {}, subjects |-> {},
              attendance_daily |-> {},
              resp |-> Response(op, "cloud_reset_complete", 200, 0,
                                NoParam, NoParam, <<>>)]

(* startup(): the tables exist already (CREATE TABLE IF NOT EXISTS changes  *)
(* nothing), and the subjects catalog is healed from the stored slots.     *)
startup(subj, slots) == AutoHealSubjects(subj, slots)

----------------------------------------------------------------------------
(* The lookup endpoints: GET /departments, /semesters, /timetable,         *)
(* /subjects-by-date, /students, /attendance-exists and /attendance.  Each *)
(* runs one SELECT and returns a list built from the rows; the response of *)
(* the model keeps the length of that list.  None of them commits.         *)

LookupFaults == {"none", "connect"}

LookupOps == {"get_departments", "get_semesters", "get_timetable",
              "get_subjects_by_date", "get_students", "attendance_exists",
              "get_attendance"}

LookupResponse(op, n) == Response(op, "success", 200, n, NoParam, NoParam, <<>>)

(* The students table keeps one payload column (name) for department,      *)
(* semester and section: WHERE LOWER(column) = LOWER(%s) on that column.    *)
PayloadIs(r, value) == Lower(r.name) = Lower(value)

(* SELECT DISTINCT department FROM students WHERE department IS NOT NULL *)
get_departments(stu, fault) ==
    IF fault # "none" THEN Http500("get_departments", NoParam)
    ELSE LookupResponse("get_departments",
                        Cardinality({r.name : r \in {x \in stu : x.name # ""}}))

(* SELECT DISTINCT semester FROM students WHERE LOWER(department)=LOWER(%s) *)
get_semesters(stu, department, fault) ==
    IF fault # "none" THEN Http500("get_semesters", NoParam)
    ELSE LookupResponse("get_semesters",
                        Cardinality({r.name : r \in {x \in stu : PayloadIs(x, department)}}))

(* SELECT section, period_no, subject_id, faculty_id, room FROM            *)
(* timetable_slots WHERE LOWER(department)=LOWER(%s) AND                    *)
(* LOWER(semester)=LOWER(%s) AND LOWER(day)=LOWER(%s) ORDER BY period_no    *)
get_timetable(slots, department, semester, day, fault) ==
    IF fault # "none" THEN Http500("get_timetable", NoParam)
    ELSE LookupResponse("get_timetable",
            Cardinality({r \in slots : /\ Lower(r.department) = Lower(department)
                                       /\ Lower(r.semester) = Lower(semester)
                                       /\ Lower(r.day) = Lower(day)}))

(* get_subjects_by_date: strptime fails with 400 before the connection is  *)
(* opened; else one row per group of (t.subject_id, s.subject_name,        *)
(* s.type, t.type) of the slots of the weekday LEFT JOINed to subjects.    *)
get_subjects_by_date(slots, subj, department, semester, date, fault) ==
    LET op == "get_subjects_by_date"
        mine == {t \in slots : /\ LowerTrim(t.department) = LowerTrim(department)
                               /\ LowerTrim(t.semester) = LowerTrim(semester)
                               /\ LowerTrim(t.day) = LowerTrim(DayShort(date))}
        joined(t) == {s \in subj :
                         /\ LowerTrim(t.subject_id) = LowerTrim(s.subject_id)
                         /\ LowerTrim(t.semester) = LowerTrim(s.semester)
                         /\ LowerTrim(t.department) = LowerTrim(s.department)}
        groups == {<<t.subject_id, s.subject_name, s.type, t.type>> :
                      t \in mine, s \in subj}
        rows == {g \in groups : \E t \in mine : \E s \in joined(t) :
                    g = <<t.subject_id, s.subject_name, s.type, t.type>>}
                \cup {<<t.subject_id, NullText, NullText, t.type>> :
                         t \in {x \in mine : joined(x) = {}}}
    IN  IF DayShort(date) = ""
        THEN Response(op, "error", 400, 0, NoParam, NoParam, <<>>)
        ELSE IF fault # "none" THEN Http500(op, NoParam)
        ELSE LookupResponse(op, Cardinality(rows))

(* get_students: the section filter is left out when section.lower() is    *)
(* "all".                                                                  *)
get_students(stu, department, semester, section, fault) ==
    IF fault # "none" THEN Http500("get_students", NoParam)
    ELSE LookupResponse("get_students",
            Cardinality({r \in stu :
                            /\ PayloadIs(r, department)
                            /\ PayloadIs(r, semester)
                            /\ (Lower(section) # "all" => PayloadIs(r, section))}))

(* SELECT 1 FROM attendance_daily WHERE LOWER(semester)=LOWER(%s) AND       *)
(* LOWER(subject)=LOWER(%s) AND class_date=%s AND LOWER(section)=LOWER(%s)  *)
(* LIMIT 1; a date PostgreSQL cannot read fails the query.                  *)
attendance_exists(att, semester, section, subject, date, fault) ==
    LET op == "attendance_exists"
    IN  IF fault # "none" \/ DayShort(date) = "" THEN Http500(op, NoParam)
        ELSE LookupResponse(op,
                IF \E r \in att : /\ Lower(r.semester) = Lower(semester)
                                  /\ Lower(r.subject) = Lower(subject)
                                  /\ r.class_date = date
                                  /\ Lower(r.section) = Lower(section)
                THEN 1 ELSE 0)

(* EXTRACT(MONTH FROM class_date); the month stands for month and year. *)
MonthOf(date) == IF DayShort(date) = "" THEN 0 ELSE 1

(* get_attendance: attendance_daily JOIN students ON a.sbrn = s.sbrn, of a *)
(* department, semester, month, year and subject.                          *)
get_attendance(att, stu, department, semester, month, subject, fault) ==
    IF fault # "none" THEN Http500("get_attendance", NoParam)
    ELSE LookupResponse("get_attendance",
            Cardinality({<<a, s>> \in att \X stu :
                            /\ a.sbrn = s.sbrn
                            /\ PayloadIs(s, department)
                            /\ Lower(a.semester) = Lower(semester)
                            /\ MonthOf(a.class_date) = month
                            /\ Lower(a.subject) = Lower(subject)}))

(* The values the lookups are asked for. *)
LookupNames == {"Alice", "alicia"}
LookupDates == {"2024-01-01", "01/01/2024"}

----------------------------------------------------------------------------
(* mark_attendance calls served at the same time as attendance pulls.      *)
(* psycopg2 opens the transaction at the first statement, the period       *)
(* check; CURRENT_TIMESTAMP is the start time of the transaction for all   *)
(* of its statements, and the rows become visible to other connections     *)
(* when the transaction commits.                                           *)

(* The request of a concurrent caller: one student, present or absent.  A  *)
(* caller's statements run when it commits, so no caller waits for a row   *)
(* another holds.                                                          *)
MarkingRequest(sbrn, present) ==
    [department |-> "CSE", semester |-> "3", section |-> "ALL",
     subject |-> "CS101", date |-> "2024-01-01",
     attendance |-> <<[sbrn |-> sbrn, present |-> present]>>]

MarkingTxn(data, stamp) == [state |-> "marking", data |-> data, stamp |-> stamp]

(* A client that pulls attendance incrementally (spec, section 2): it      *)
(* passes the latest_sync of its last non-empty pull and keeps the rows    *)
(* it is given.                                                            *)
KeepRows(have, records) == have \cup Range(records)

----------------------------------------------------------------------------
(* The state machine.                                                      *)
(*                                                                         *)
(* The student endpoints touch only the students table, the timetable      *)
(* endpoints only timetable_slots and subjects, and mark_attendance writes *)
(* attendance_daily and reads timetable_slots.  A behaviour therefore      *)
(* exercises one endpoint family, named by `workload`; the specification   *)
(* is the union of the families' behaviours.                               *)

Workloads == {"students", "client", "timetable", "attendance", "concurrent",
              "desktop", "marking"}

(* Records a client of each workload sends. *)
ClientRecords ==
    {r \in StudentRecords :
        /\ {"version", "last_updated"} \subseteq r.present
        /\ (r.sbrn = "S002" => /\ r.version = 1
                               /\ r.is_deleted = 0
                               /\ r.last_updated = 1)}

FaultStudentBatches == SeqsUpTo(StudentBatchRecords, 1)

StudentBatchesOf(w, fault) ==
    IF w = "attendance"
    THEN IF fault # "none" THEN {}
         ELSE {<<r>> : r \in {x \in ClientRecords : /\ x.version = 1
                                                     /\ x.last_updated = 1}}
    ELSE IF fault # "none" THEN FaultStudentBatches
    ELSE IF w = "client" THEN {<<r>> : r \in ClientRecords}
    ELSE StudentBatches

FaultSlotBatches == SeqsUpTo(SlotBatchRecords, 1)

SlotBatchesOf(w, fault) ==
    IF w \in {"attendance", "desktop", "marking"}
    THEN IF fault # "none" THEN {}
         ELSE {<<r>> : r \in {x \in SlotBatchRecords :
                                /\ x.version = 1 /\ x.period_no = 1
                                /\ SlotFields \subseteq x.present}}
    ELSE IF fault # "none" THEN FaultSlotBatches
    ELSE SlotBatches

(* A pull is served with every watermark, or hits a fault. *)
PullRequests ==
    (SinceParams \X {"none"}) \cup ({NoParam} \X (PullFaults \ {"none"}))

(* mark_attendance is served for every request, or hits a fault. *)
MarkRequests ==
    (AttendanceRequests \X {"none"})
    \cup ({r \in AttendanceRequests :
              r.attendance = <<[sbrn |-> "S001", present |-> TRUE]>>}
          \X (AttendanceFaults \ {"none"}))

(* startup() creates timetable_slots with CREATE TABLE IF NOT EXISTS and no *)
(* unique constraint on the five key columns; a table that is already there *)
(* keeps whatever constraints it has.                                      *)
Init ==
    /\ students = {}
    /\ timetable_slots = {}
    /\ subjects = {}
    /\ attendance_daily = {}
    /\ workload \in Workloads
    /\ tt_key_unique \in (IF workload \in {"timetable", "attendance", "desktop"}
                          THEN BOOLEAN
                          ELSE IF workload = "marking" THEN {TRUE} ELSE {FALSE})
    /\ now = 1
    /\ resp = NoResponse
    /\ cursor = NoParam
    /\ local = [k \in Sbrns |-> [version |-> 0, is_deleted |-> 0]]
    /\ txn = [c \in Clients |-> IdleTxn]
    /\ received = {}

(* The authority's clock moves on.  The concurrent pushers send their own  *)
(* last_updated, so their handlers never read the clock; among the         *)
(* concurrent markers the clock moves with every transaction that begins.  *)
Tick ==
    /\ now < MaxTime
    /\ workload \notin {"concurrent", "marking"}
    /\ now' = now + 1
    /\ UNCHANGED <<students, timetable_slots, subjects, attendance_daily,
                   tt_key_unique, resp, cursor, local, workload, txn, received>>

SyncStudents ==
    /\ workload \in {"students", "client", "attendance"}
    /\ \E fault \in PushFaults :
       \E records \in StudentBatchesOf(workload, fault) :
          LET out == sync_students(students, now, records, fault)
          IN  /\ students' = out.students
              /\ resp' = out.resp
    /\ UNCHANGED <<timetable_slots, subjects, attendance_daily, tt_key_unique,
                   now, cursor, local, workload, txn, received>>

SyncStudentsFromCloud ==
    /\ workload = "students"
    /\ \E p \in PullRequests :
          resp' \in sync_students_from_cloud(students, p[1], p[2])
    /\ UNCHANGED <<students, timetable_slots, subjects, attendance_daily,
                   tt_key_unique, now, cursor, local, workload, txn, received>>

(* The desktop client's next incremental pull. *)
ClientPull ==
    /\ workload = "client"
    /\ \E fault \in {"none", "query"} :
       \E response \in sync_students_from_cloud(students, cursor, fault) :
          /\ resp' = response
          /\ cursor' = NextCursor(cursor, response)
          /\ local' = ApplyToLocal(local, response.records)
    /\ UNCHANGED <<students, timetable_slots, subjects, attendance_daily,
                   tt_key_unique, now, workload, txn, received>>

SyncTimetable ==
    /\ workload \in {"timetable", "attendance", "desktop", "marking"}
    /\ \E fault \in TimetableFaults :
       \E records \in SlotBatchesOf(workload, fault) :
       \E out \in sync_timetable(timetable_slots, subjects, tt_key_unique,
                                 records, fault) :
          /\ timetable_slots' = out.timetable_slots
          /\ subjects' = out.subjects
          /\ resp' = out.resp
    /\ UNCHANGED <<students, attendance_daily, tt_key_unique, now, cursor,
                   local, workload, txn, received>>

(* A pull that removes what it has handed out. *)
PullAndRemove ==
    /\ workload = "timetable"
    /\ \E p \in PullRequests :
          resp' \in get_timetable_sync(timetable_slots, p[1], p[2])
    /\ timetable_slots' = IF resp'.status = "success" THEN {} ELSE timetable_slots
    /\ UNCHANGED <<students, subjects, attendance_daily,
                   tt_key_unique, now, cursor, local, workload, txn, received>>

GetTimetableSync ==
    /\ workload = "timetable"
    /\ \E p \in PullRequests :
          resp' \in get_timetable_sync(timetable_slots, p[1], p[2])
    /\ UNCHANGED <<students, timetable_slots, subjects, attendance_daily,
                   tt_key_unique, now, cursor, local, workload, txn, received>>

MarkAttendance ==
    /\ workload = "attendance"
    /\ \E q \in MarkRequests :
          LET out == mark_attendance(attendance_daily, timetable_slots, now,
                                     q[1], q[2])
          IN  /\ attendance_daily' = out.attendance_daily
              /\ resp' = out.resp
    /\ UNCHANGED <<students, timetable_slots, subjects, tt_key_unique, now,
                   cursor, local, workload, txn, received>>

SyncAttendanceFromCloud ==
    /\ workload = "attendance"
    /\ \E p \in PullRequests :
          resp' \in sync_attendance_from_cloud(attendance_daily, p[1], p[2])
    /\ UNCHANGED <<students, timetable_slots, subjects, attendance_daily,
                   tt_key_unique, now, cursor, local, workload, txn, received>>

(* sync_students up to the point where it has its connection. *)
BeginPush(c) ==
    /\ workload = "concurrent"
    /\ txn[c].state = "idle"
    /\ \E B \in ConcurrentBatches :
          txn' = [txn EXCEPT ![c] = [state |-> "open",
                                     batch |-> NormalizeStudents(B, now),
                                     pos |-> 1, writes |-> {}, locks |-> {}]]
    /\ UNCHANGED <<students, timetable_slots, subjects, attendance_daily,
                   tt_key_unique, now, resp, cursor, local, workload, received>>

(* The next statement of execute_batch. *)
ExecuteStatement(c) ==
    /\ txn[c].state = "open"
    /\ txn[c].pos <= Len(txn[c].batch)
    /\ LET rec == txn[c].batch[txn[c].pos]
           after == UpsertStudent(Snapshot(students, txn[c]), rec)
           held == txn[c].locks \cup {rec.sbrn}
       IN  /\ RowLockFree(txn, c, rec.sbrn)
           /\ txn' = [txn EXCEPT ![c].pos = @ + 1,
                                 ![c].locks = held,
                                 ![c].writes = {r \in after : r.sbrn \in held}]
    /\ UNCHANGED <<students, timetable_slots, subjects, attendance_daily,
                   tt_key_unique, now, resp, cursor, local, workload, received>>

(* conn.commit() and the return. *)
CommitPush(c) ==
    /\ txn[c].state = "open"
    /\ txn[c].pos > Len(txn[c].batch)
    /\ students' = Snapshot(students, txn[c])
    /\ resp' = Response("sync_students", "success", 200, Len(txn[c].batch),
                        NoParam, NoParam, <<>>)
    /\ txn' = [txn EXCEPT ![c] = IdleTxn]
    /\ UNCHANGED <<timetable_slots, subjects, attendance_daily, tt_key_unique,
                   now, cursor, local, workload, received>>

(* Two transactions wait for each other: PostgreSQL detects the deadlock   *)
(* and fails the statement of one; its handler rolls back and answers 500. *)
DeadlockAbort(c) ==
    /\ \E d \in Clients \ {c} : WaitsFor(txn, c, d) /\ WaitsFor(txn, d, c)
    /\ resp' = Http500("sync_students", NoParam)
    /\ txn' = [txn EXCEPT ![c] = IdleTxn]
    /\ UNCHANGED <<students, timetable_slots, subjects, attendance_daily,
                   tt_key_unique, now, cursor, local, workload, received>>

SaveTimetableFromDesktop ==
    /\ workload = "desktop"
    /\ Cardinality(timetable_slots) < MaxSlots
    /\ \E fault \in DesktopFaults : \E payload \in SavePayloads :
          LET out == save_timetable_from_desktop(timetable_slots, tt_key_unique,
                                                 now, payload, fault)
          IN  /\ timetable_slots' = out.timetable_slots
              /\ resp' = out.resp
    /\ UNCHANGED <<students, subjects, attendance_daily, tt_key_unique, now,
                   cursor, local, workload, txn, received>>

ResetTimetableFromDesktop ==
    /\ workload \in {"desktop", "marking", "students"}
    /\ \E fault \in DesktopFaults : \E q \in ResetParams :
          LET out == reset_timetable_from_desktop(timetable_slots, q[1], q[2], fault)
          IN  /\ timetable_slots' = out.timetable_slots
              /\ resp' = out.resp
    /\ UNCHANGED <<students, subjects, attendance_daily, tt_key_unique, now,
                   cursor, local, workload, txn, received>>

FullResetCloud ==
    /\ workload \in {"students", "desktop"}
    /\ \E fault \in DesktopFaults :
          LET out == full_reset_cloud(students, timetable_slots, subjects,
                                      attendance_daily, fault)
          IN  /\ students' = out.students
              /\ timetable_slots' = out.timetable_slots
              /\ subjects' = out.subjects
              /\ attendance_daily' = out.attendance_daily
              /\ resp' = out.resp
    /\ UNCHANGED <<tt_key_unique, now, cursor, local, workload, txn, received>>

(* The process starts again; it has served no request yet. *)
Startup ==
    /\ workload = "desktop"
    /\ subjects' \in startup(subjects, timetable_slots)
    /\ resp' = NoResponse
    /\ UNCHANGED <<students, timetable_slots, attendance_daily, tt_key_unique,
                   now, cursor, local, workload, txn, received>>

(* The lookups: each leaves a response and nothing else. *)
GetDepartments ==
    /\ workload = "attendance"
    /\ \E fault \in LookupFaults : resp' = get_departments(students, fault)
    /\ UNCHANGED <<students, timetable_slots, subjects, attendance_daily,
                   tt_key_unique, now, cursor, local, workload, txn, received>>

GetSemesters ==
    /\ workload = "attendance"
    /\ \E fault \in LookupFaults : \E department \in LookupNames :
          resp' = get_semesters(students, department, fault)
    /\ UNCHANGED <<students, timetable_slots, subjects, attendance_daily,
                   tt_key_unique, now, cursor, local, workload, txn, received>>

GetTimetable ==
    /\ workload = "attendance"
    /\ \E fault \in LookupFaults : \E q \in ResetParams : \E day \in {"mon", "Tue"} :
          resp' = get_timetable(timetable_slots, q[1], q[2], day, fault)
    /\ UNCHANGED <<students, timetable_slots, subjects, attendance_daily,
                   tt_key_unique, now, cursor, local, workload, txn, received>>

GetSubjectsByDate ==
    /\ workload = "attendance"
    /\ \E fault \in LookupFaults : \E q \in ResetParams : \E date \in LookupDates :
          resp' = get_subjects_by_date(timetable_slots, subjects, q[1], q[2],
                                       date, fault)
    /\ UNCHANGED <<students, timetable_slots, subjects, attendance_daily,
                   tt_key_unique, now, cursor, local, workload, txn, received>>

GetStudents ==
    /\ workload = "attendance"
    /\ \E fault \in LookupFaults : \E value \in LookupNames :
       \E section \in {"All", value} :
          resp' = get_students(students, value, value, section, fault)
    /\ UNCHANGED <<students, timetable_slots, subjects, attendance_daily,
                   tt_key_unique, now, cursor, local, workload, txn, received>>

AttendanceExists ==
    /\ workload = "attendance"
    /\ \E fault \in LookupFaults : \E semester \in Semesters :
       \E section \in {"all", "A"} : \E subject \in AttSubjects :
       \E date \in LookupDates :
          resp' = attendance_exists(attendance_daily, semester, section,
                                    subject, date, fault)
    /\ UNCHANGED <<students, timetable_slots, subjects, attendance_daily,
                   tt_key_unique, now, cursor, local, workload, txn, received>>

GetAttendance ==
    /\ workload = "attendance"
    /\ \E fault \in LookupFaults : \E department \in LookupNames :
       \E semester \in Semesters : \E subject \in AttSubjects :
          resp' = get_attendance(attendance_daily, students, department,
                                 semester, 1, subject, fault)
    /\ UNCHANGED <<students, timetable_slots, subjects, attendance_daily,
                   tt_key_unique, now, cursor, local, workload, txn, received>>

(* mark_attendance up to the period check: the transaction begins and     *)
(* fixes its CURRENT_TIMESTAMP; a transaction that begins later reads a    *)
(* later time.  Without a period the handler returns at once.              *)
BeginMark(c) ==
    /\ workload = "marking"
    /\ txn[c].state = "idle"
    /\ now <= MaxTime
    /\ IF PeriodExists(timetable_slots, MarkingRequest("S001", TRUE))
       THEN /\ \E sbrn \in {"S001", "S002"}, present \in BOOLEAN :
                  txn' = [txn EXCEPT
                             ![c] = MarkingTxn(MarkingRequest(sbrn, present), now)]
            /\ now' = now + 1
            /\ resp' = resp
       ELSE /\ resp' = Response("mark_attendance", "no_period", 200, 0,
                                NoParam, NoParam, <<>>)
            /\ UNCHANGED <<txn, now>>
    /\ UNCHANGED <<students, timetable_slots, subjects, attendance_daily,
                   tt_key_unique, cursor, local, workload, received>>

(* The INSERT statements, conn.commit() and the return; or a statement     *)
(* fails and the handler rolls back.                                       *)
CommitMark(c) ==
    /\ txn[c].state = "marking"
    /\ \E fault \in {"none", "batch"} :
          IF fault = "none"
          THEN /\ attendance_daily' =
                     SaveAttendance(attendance_daily, txn[c].data,
                                    txn[c].data.attendance, txn[c].stamp)
               /\ resp' = Response("mark_attendance", "saved", 200, 0,
                                   NoParam, NoParam, <<>>)
          ELSE /\ attendance_daily' = attendance_daily
               /\ resp' = Http500("mark_attendance", NoParam)
    /\ txn' = [txn EXCEPT ![c] = IdleTxn]
    /\ UNCHANGED <<students, timetable_slots, subjects, tt_key_unique, now,
                   cursor, local, workload, received>>

(* The attendance client's next incremental pull. *)
ClientPullAttendance ==
    /\ workload = "marking"
    /\ \E fault \in {"none", "query"} :
       \E response \in sync_attendance_from_cloud(attendance_daily, cursor, fault) :
          /\ resp' = response
          /\ cursor' = NextCursor(cursor, response)
          /\ received' = KeepRows(received, response.records)
    /\ UNCHANGED <<students, timetable_slots, subjects, attendance_daily,
                   tt_key_unique, now, local, workload, txn>>

Next ==
    \/ Tick
    \/ SyncStudents
    \/ SyncStudentsFromCloud
    \/ ClientPull
    \/ SyncTimetable
    \/ GetTimetableSync
    \/ MarkAttendance
    \/ SyncAttendanceFromCloud
    \/ \E c \in Clients : BeginPush(c)
    \/ \E c \in Clients : ExecuteStatement(c)
    \/ \E c \in Clients : CommitPush(c)
    \/ \E c \in Clients : DeadlockAbort(c)
    \/ SaveTimetableFromDesktop
    \/ ResetTimetableFromDesktop
    \/ FullResetCloud
    \/ Startup
    \/ GetDepartments
    \/ GetSemesters
    \/ GetTimetable
    \/ GetSubjectsByDate
    \/ GetStudents
    \/ AttendanceExists
    \/ GetAttendance
    \/ \E c \in Clients : BeginMark(c)
    \/ \E c \in Clients : CommitMark(c)
    \/ ClientPullAttendance

Spec == Init /\ [][Next]_vars

----------------------------------------------------------------------------
(* Properties.                                                             *)

PullOps == {"sync_students_from_cloud", "get_timetable_sync",
            "sync_attendance_from_cloud"}

PushOps == {"sync_students", "sync_timetable"}

(* The table a pull endpoint reads, as the JSON rows it would return. *)
JsonRowsOf(op) ==
    IF op = "sync_students_from_cloud" THEN {StudentJsonRow(r) : r \in students}
    ELSE IF op = "get_timetable_sync" THEN {SlotJsonRow(r) : r \in timetable_slots}
    ELSE {AttendanceJsonRow(r) : r \in attendance_daily}

(* How many stored rows of the table a pull endpoint reads give this JSON row. *)
StoredCount(op, j) ==
    IF op = "sync_students_from_cloud"
    THEN Cardinality({r \in students : StudentJsonRow(r) = j})
    ELSE IF op = "get_timetable_sync"
    THEN Cardinality({r \in timetable_slots : SlotJsonRow(r) = j})
    ELSE Cardinality({r \in attendance_daily : AttendanceJsonRow(r) = j})

ReturnedCount(j) == Cardinality({i \in DOMAIN resp.records : resp.records[i] = j})

PullSucceeded == resp.op \in PullOps /\ resp.status = "success"

(* One student record against the conflict rule: pre and post are the table *)
(* before and after the statement ran for the normalized record rec.       *)
StudentRuleHolds(pre, rec, post) ==
    LET old == {r \in pre : r.sbrn = rec.sbrn}
        new == {r \in post : r.sbrn = rec.sbrn}
        accept == old = {} \/ \E r \in old : rec.version > r.version
    IN  /\ (new # old) <=> accept
        /\ accept => new = {rec}
        /\ {r \in post : r.sbrn # rec.sbrn} = {r \in pre : r.sbrn # rec.sbrn}

(* One timetable record against the conflict rule. *)
SlotRuleHolds(pre, rec, post) ==
    LET old == {r \in pre : SlotKey(r) = SlotKey(rec)}
        new == {r \in post : SlotKey(r) = SlotKey(rec)}
        accept == old = {} \/ \E r \in old : rec.version > r.version
    IN  /\ (new # old) <=> accept
        /\ accept => /\ Cardinality(new) = 1
                     /\ \A x \in new : SlotJsonRow(x) = SlotJsonRow(SlotRow(0, rec))
        /\ {r \in post : SlotKey(r) # SlotKey(rec)}
              = {r \in pre : SlotKey(r) # SlotKey(rec)}

(* C1: every record a push applies follows the conflict rule: the stored   *)
(* row of its key changes if and only if the key was absent or the         *)
(* incoming version is strictly greater than the stored one, and then all  *)
(* stored fields of the key are the incoming ones; otherwise the row is    *)
(* left exactly as it was.  Checked record by record along every batch of  *)
(* a student push and of a timetable push that wrote to the store.         *)
C1_ConflictRule ==
    /\ \A B \in StudentBatches :
          LET out == sync_students(students, now, B, "none")
              nb == NormalizeStudents(B, now)
          IN  out.resp.status = "success" =>
                 /\ out.students = ExecuteStudentBatch(students, nb)
                 /\ \A i \in DOMAIN nb :
                       StudentRuleHolds(
                          ExecuteStudentBatch(students, SubSeq(nb, 1, i - 1)),
                          nb[i],
                          ExecuteStudentBatch(students, SubSeq(nb, 1, i)))
    /\ \A B \in SlotBatches : \A fault \in {"none", "derive"} :
       \A out \in sync_timetable(timetable_slots, subjects, tt_key_unique,
                                 B, fault) :
          (out.resp.status = "success" \/ out.timetable_slots # timetable_slots)
          => /\ out.timetable_slots = ExecuteSlotBatch(timetable_slots, B)
             /\ \A i \in DOMAIN B :
                   SlotRuleHolds(
                      ExecuteSlotBatch(timetable_slots, SubSeq(B, 1, i - 1)),
                      B[i],
                      ExecuteSlotBatch(timetable_slots, SubSeq(B, 1, i)))

(* A student push of a whole batch succeeded and left a row of the highest *)
(* version in the store.                                                   *)
C1_Witness ==
    /\ resp.op = "sync_students" /\ resp.status = "success"
    /\ resp.n = MaxBatch
    /\ \E r \in students : r.version = MaxVersion /\ r.name = "Alicia"

(* C2: across every request, the stored version of every key that exists   *)
(* never decreases (student rows by sbrn, timetable rows by row).          *)
C2_VersionMonotonic ==
    [][ /\ \A r \in students : \A q \in students' :
              q.sbrn = r.sbrn => q.version >= r.version
        /\ \A r \in timetable_slots : \A q \in timetable_slots' :
              (q.id = r.id /\ SlotKey(q) = SlotKey(r)) => q.version >= r.version
      ]_vars

(* A timetable push succeeded on a store that holds a slot of the highest  *)
(* version together with a slot of the lowest one.                         *)
C2_Witness ==
    /\ resp.op = "sync_timetable" /\ resp.status = "success"
    /\ \E r \in timetable_slots : r.version = MaxVersion
    /\ \E r \in timetable_slots : r.version = 1

(* C3: pushing the same batch twice in succession leaves the store, after  *)
(* the second push, equal to the store after the first, and the second     *)
(* push answers what the first answered (success with the same count when  *)
(* the first succeeded), whatever the clock reads at the second push.      *)
C3_PushIdempotent ==
    /\ \A B \in StudentBatches : \A later \in now..MaxTime :
          LET first == sync_students(students, now, B, "none")
              second == sync_students(first.students, later, B, "none")
          IN  /\ second.students = first.students
              /\ second.resp = first.resp
              /\ first.resp.http = 200
    /\ \A B \in SlotBatches :
       \A first \in sync_timetable(timetable_slots, subjects, tt_key_unique,
                                   B, "none") :
       \A second \in sync_timetable(first.timetable_slots, first.subjects,
                                    tt_key_unique, B, "none") :
          /\ second.timetable_slots = first.timetable_slots
          /\ second.subjects = first.subjects
          /\ second.resp = first.resp

(* A student push succeeded and the store holds a row stamped before the   *)
(* present time: a retry now would carry a later server timestamp.         *)
C3_Witness ==
    /\ resp.op = "sync_students" /\ resp.status = "success"
    /\ \E r \in students : r.last_updated < now /\ r.version = DefaultVersion

(* C4: a successful pull of students, timetable or attendance with a       *)
(* watermark W returns every stored record whose last_updated is after W   *)
(* exactly once, and no stored record whose last_updated is at or before W.*)
C4_WatermarkComplete ==
    (PullSucceeded /\ CanParse(resp.since)) =>
        LET W == fromisoformat(resp.since)
        IN  /\ \A j \in JsonRowsOf(resp.op) :
                  IF fromisoformat(j.last_updated) > W
                  THEN ReturnedCount(j) = StoredCount(resp.op, j)
                  ELSE ReturnedCount(j) = 0
            /\ \A i \in DOMAIN resp.records :
                  resp.records[i] \in JsonRowsOf(resp.op)

(* A pull with a watermark returned a record while the store also holds a  *)
(* record at or before the watermark.                                      *)
C4_Witness ==
    /\ PullSucceeded /\ CanParse(resp.since)
    /\ resp.records # <<>>
    /\ \E j \in JsonRowsOf(resp.op) :
          fromisoformat(j.last_updated) <= fromisoformat(resp.since)

(* C5: a client that keeps the returned latest_sync and passes it as the   *)
(* next watermark ends up, once writes stop, with the store's current      *)
(* version and is_deleted for every key: at every moment each stored row   *)
(* is either what the client holds or still ahead of the client's          *)
(* watermark, so that the next pull delivers it.                           *)
C5_ClientConverges ==
    workload = "client" =>
        \A r \in students :
           \/ local[r.sbrn] = [version |-> r.version, is_deleted |-> r.is_deleted]
           \/ cursor = NoParam
           \/ r.last_updated > fromisoformat(cursor)

(* C6: a student push that soft-deletes a key with an accepted version     *)
(* makes every later pull without a watermark, or with a watermark before  *)
(* the tombstone's stored last_updated, return that key with is_deleted =  *)
(* 1; and no pull leaves out a stored record because it is soft-deleted.   *)
C6_TombstonePropagates ==
    /\ \A rec \in {x \in StudentRecords : HasSbrn(x) /\ Get(x, "is_deleted", 0) = 1} :
          LET n == NormalizeStudent(rec, now)
              out == sync_students(students, now, <<rec>>, "none")
          IN  (\A r \in students : r.sbrn = n.sbrn => r.version < n.version)
              => \A since \in SinceParams :
                    (~Truthy(since)
                       \/ (CanParse(since) /\ fromisoformat(since) < n.last_updated))
                    => \A response \in
                          sync_students_from_cloud(out.students, since, "none") :
                          /\ response.status = "success"
                          /\ \E i \in DOMAIN response.records :
                                /\ response.records[i].sbrn = n.sbrn
                                /\ response.records[i].is_deleted = 1
                                /\ response.records[i].version = n.version
    /\ (resp.op = "sync_students_from_cloud" /\ resp.status = "success") =>
          \A r \in students :
             (r.is_deleted = 1
                /\ (Truthy(resp.since) => r.last_updated > fromisoformat(resp.since)))
             => \E i \in DOMAIN resp.records :
                   /\ resp.records[i].sbrn = r.sbrn
                   /\ resp.records[i].is_deleted = 1

(* A student pull returned a soft-deleted record. *)
C6_Witness ==
    /\ resp.op = "sync_students_from_cloud" /\ resp.status = "success"
    /\ \E i \in DOMAIN resp.records :
          /\ resp.records[i].is_deleted = 1
          /\ \E r \in students : r.sbrn = resp.records[i].sbrn /\ r.is_deleted = 1

(* C7: the records of a pull are in ascending last_updated order; with a   *)
(* watermark every returned record is strictly after it; with no watermark *)
(* the pull returns every stored record.                                   *)
C7_PullOrdering ==
    PullSucceeded =>
        /\ \A i, k \in DOMAIN resp.records :
              i < k => fromisoformat(resp.records[i].last_updated)
                          <= fromisoformat(resp.records[k].last_updated)
        /\ Truthy(resp.since) =>
              \A i \in DOMAIN resp.records :
                 fromisoformat(resp.records[i].last_updated)
                    > fromisoformat(resp.since)
        /\ resp.since = NoParam =>
              /\ \A j \in JsonRowsOf(resp.op) :
                    ReturnedCount(j) = StoredCount(resp.op, j)
              /\ resp.n = Len(resp.records)

(* A pull returned two records with different timestamps. *)
C7_Witness ==
    /\ PullSucceeded
    /\ \E i, k \in DOMAIN resp.records :
          fromisoformat(resp.records[i].last_updated)
             < fromisoformat(resp.records[k].last_updated)

(* C8: the next watermark of a pull response is the last_updated of the    *)
(* last record returned and, when nothing is returned, the watermark that  *)
(* was passed in.                                                          *)
C8_NextWatermark ==
    PullSucceeded =>
        IF resp.records # <<>>
        THEN resp.latest_sync = resp.records[Len(resp.records)].last_updated
        ELSE resp.latest_sync = (IF CanParse(resp.since) THEN resp.since
                                 ELSE NoParam)

(* C9: a pull whose watermark is supplied but is no timestamp is rejected  *)
(* with a client error (400), returns no records, and is told apart from a *)
(* storage failure (500).                                                  *)
C9_MalformedWatermark ==
    (resp.op \in PullOps /\ resp.since = BadParam) =>
        /\ resp.http = 400
        /\ resp.records = <<>>

(* C10: a push that answers with a storage error has stored none of its    *)
(* batch: the tables are as they were before the request.                  *)
C10_BatchAtomic ==
    [][ (resp'.op \in PushOps /\ resp'.http = 500) =>
           /\ students' = students
           /\ timetable_slots' = timetable_slots
           /\ subjects' = subjects
      ]_vars

(* C11: for a timetable push the slot upserts and the derivation of the    *)
(* subjects catalog commit or fail together: whenever the push answers     *)
(* with an error neither timetable_slots nor subjects has changed, and     *)
(* whenever it answers success both have been applied.                     *)
C11_SameDurabilityUnit ==
    [][ resp'.op = "sync_timetable" =>
           /\ resp'.http = 500 =>
                 /\ timetable_slots' = timetable_slots
                 /\ subjects' = subjects
           /\ resp'.status = "success" =>
                 subjects' \in AutoHealSubjects(subjects, timetable_slots')
      ]_vars

(* C12: when pushes carrying versions of the same key are served at the    *)
(* same time, in any interleaving of their statements, a push that commits *)
(* leaves every key of its batch stored at a version at least the one it   *)
(* pushed, and lowers the stored version of no key: the highest pushed     *)
(* version stays, and no lower or equal version overwrites a higher one.   *)
C12_AtomicCheckAndSet ==
    [][ \A c \in Clients :
           (txn[c].state = "open" /\ txn'[c].state = "idle"
              /\ resp'.status = "success")
           => /\ \A i \in DOMAIN txn[c].batch :
                    \E r \in students' :
                       /\ r.sbrn = txn[c].batch[i].sbrn
                       /\ r.version >= txn[c].batch[i].version
              /\ \A r \in students :
                    \E q \in students' :
                       q.sbrn = r.sbrn /\ q.version >= r.version
      ]_vars

(* Two pushes are open; one has written a key and the other, carrying a    *)
(* different version of that key, waits for it.                            *)
C12_Witness ==
    \E c, d \in Clients :
       /\ c # d
       /\ WaitsFor(txn, c, d)
       /\ \E w \in txn[d].writes :
             /\ w.sbrn = txn[c].batch[txn[c].pos].sbrn
             /\ w.version # txn[c].batch[txn[c].pos].version

(* Every reordering of a batch. *)
Reorderings(B) ==
    {[i \in DOMAIN B |-> B[f[i]]] :
        f \in {g \in [DOMAIN B -> DOMAIN B] :
                  \A i, j \in DOMAIN B : i # j => g[i] # g[j]}}

(* C13: for every batch and every permutation of its records, pushing the  *)
(* permuted batch onto the same store leaves the same stored state as      *)
(* pushing the batch itself, also when several records share a key.        *)
C13_OrderIndependent ==
    /\ \A B \in StudentBatches : \A P \in Reorderings(B) :
          sync_students(students, now, P, "none").students
             = sync_students(students, now, B, "none").students
    /\ \A B \in SlotBatches : \A P \in Reorderings(B) :
          {{SlotJsonRow(r) : r \in o.timetable_slots} :
              o \in sync_timetable(timetable_slots, subjects, tt_key_unique, P, "none")}
          = {{SlotJsonRow(r) : r \in o.timetable_slots} :
              o \in sync_timetable(timetable_slots, subjects, tt_key_unique, B, "none")}

(* Does a pushed record carry its identity fields. *)
CarriesSbrn(r) == "sbrn" \in r.present /\ r.sbrn # ""

CarriesSlotKey(r) == SlotKeyFields \subseteq r.present

(* C14: a record of a push batch that lacks an identity field is dropped   *)
(* and the other records are processed as if it were not there: the batch  *)
(* has the outcome and leaves the store of the batch without that record,  *)
(* for student pushes and for timetable pushes.                            *)
C14_PartialAcceptance ==
    /\ \A B \in StudentBatches :
          LET valid == SelectSeq(B, CarriesSbrn)
              whole == sync_students(students, now, B, "none")
              rest == sync_students(students, now, valid, "none")
          IN  valid # <<>> =>
                 /\ whole.resp.status = rest.resp.status
                 /\ whole.students = rest.students
    /\ \A B \in SlotBatches :
          LET valid == SelectSeq(B, CarriesSlotKey)
          IN  valid # <<>> =>
                 \A whole \in sync_timetable(timetable_slots, subjects,
                                             tt_key_unique, B, "none") :
                 \E rest \in sync_timetable(timetable_slots, subjects,
                                            tt_key_unique, valid, "none") :
                    /\ whole.resp.status = rest.resp.status
                    /\ whole.timetable_slots = rest.timetable_slots

C16_ProcessedCount ==
    /\ \A B \in StudentBatches :
          LET out == sync_students(students, now, B, "none")
          IN  out.resp.status = "success" =>
                 out.resp.n = Cardinality({i \in DOMAIN B : CarriesSbrn(B[i])})
    /\ \A B \in SlotBatches :
       \A out \in sync_timetable(timetable_slots, subjects, tt_key_unique,
                                 B, "none") :
          out.resp.status = "success" =>
             out.resp.n = Cardinality({i \in DOMAIN B : CarriesSlotKey(B[i])})

(* A successful student push that counted two records and left one row:    *)
(* a record skipped as stale was counted.                                  *)
C16_Witness ==
    /\ resp.op = "sync_students"
    /\ resp.status = "success"
    /\ resp.n = 2
    /\ Cardinality(students) = 1

(* The batch without its i-th record. *)
RemoveAt(B, i) == SubSeq(B, 1, i - 1) \o SubSeq(B, i + 1, Len(B))

(* Is the pushed record at or below the stored version of its key. *)
StaleStudent(r) ==
    /\ CarriesSbrn(r)
    /\ \E q \in students :
          q.sbrn = r.sbrn /\ Get(r, "version", DefaultVersion) <= q.version

StaleSlot(r) ==
    /\ SlotFields \subseteq r.present
    /\ \E q \in timetable_slots : SlotKey(q) = SlotKey(r) /\ r.version <= q.version

(* C17: a record of a push batch whose version is at or below the stored   *)
(* version of its key raises no error and changes nothing: the push        *)
(* answers success and leaves the store the batch without that record      *)
(* leaves, so the stored row of the key stays as it was when no other      *)
(* record of the batch has the key, and the later records are applied.     *)
(* Timetable pushes are taken where the table has the unique key the       *)
(* statement names.                                                        *)
C17_StalenessNotAnError ==
    /\ \A B \in StudentBatches : \A i \in DOMAIN B :
          StaleStudent(B[i]) =>
             LET whole == sync_students(students, now, B, "none")
                 rest == sync_students(students, now, RemoveAt(B, i), "none")
             IN  /\ whole.resp.status = "success"
                 /\ whole.students = rest.students
                 /\ (\A j \in DOMAIN B : j # i => Get(B[j], "sbrn", "") # B[i].sbrn)
                    => \A q \in students : q.sbrn = B[i].sbrn => q \in whole.students
    /\ tt_key_unique =>
       \A B \in SlotBatches : \A i \in DOMAIN B :
          (StaleSlot(B[i]) /\ \A j \in DOMAIN B : SlotFields \subseteq B[j].present) =>
             /\ \A whole \in sync_timetable(timetable_slots, subjects,
                                            tt_key_unique, B, "none") :
                   /\ whole.resp.status = "success"
                   /\ whole.timetable_slots
                         = ExecuteSlotBatch(timetable_slots, RemoveAt(B, i))
                   /\ (\A j \in DOMAIN B : j # i => SlotKey(B[j]) # SlotKey(B[i]))
                      => \A q \in timetable_slots :
                            SlotKey(q) = SlotKey(B[i]) => q \in whole.timetable_slots

(* A student push of two records at time 2 succeeded; the row of S001,     *)
(* stored at time 1 with the highest version, is as it was, and the row of *)
(* S002 carries the time of the push.                                      *)
C17_Witness ==
    /\ resp.op = "sync_students" /\ resp.status = "success" /\ resp.n = 2
    /\ now = 2
    /\ \E r \in students : r.sbrn = "S001" /\ r.version = MaxVersion /\ r.last_updated = 1
    /\ \E r \in students : r.sbrn = "S002" /\ r.last_updated = 2

(* C18: no request removes a stored record: every key stored in students,  *)
(* timetable_slots or attendance_daily before a step is still stored after *)
(* it.                                                                     *)
C18_NoPhysicalRemoval ==
    [][ /\ \A r \in students : \E q \in students' : q.sbrn = r.sbrn
        /\ \A r \in timetable_slots :
              \E q \in timetable_slots' : SlotKey(q) = SlotKey(r)
        /\ \A r \in attendance_daily :
              \E q \in attendance_daily' : AttKey(q) = AttKey(r)
      ]_vars

(* C19: every collection holds at most one row per identity key (students: *)
(* sbrn; timetable_slots: department, semester, section, day, period_no;   *)
(* attendance_daily: sbrn, subject, semester, section, class_date) after   *)
(* any sequence of startups, pushes, single-slot saves and attendance      *)
(* markings, and a record pushed for the key of a soft-deleted student     *)
(* replaces it only with a greater version.                                *)
C19_KeyUniqueness ==
    /\ \A r, q \in students : r.sbrn = q.sbrn => r = q
    /\ \A r, q \in timetable_slots : SlotKey(r) = SlotKey(q) => r = q
    /\ \A r, q \in attendance_daily : AttKey(r) = AttKey(q) => r = q
    /\ \A r \in students : \A rec \in StudentRecords :
          (/\ r.is_deleted = 1
           /\ CarriesSbrn(rec) /\ rec.sbrn = r.sbrn
           /\ Get(rec, "version", DefaultVersion) <= r.version)
          => sync_students(students, now, <<rec>>, "none").students = students

(* C20: after a timetable push that returned success, every stored slot    *)
(* with a non-null subject_id has an entry in subjects under its           *)
(* (subject_id, semester, department), and the entries the derivation      *)
(* created are named by their subject_id.                                  *)
C20_DerivedViewCoverage ==
    (resp.op = "sync_timetable" /\ resp.status = "success") =>
        /\ \A r \in timetable_slots :
              r.subject_id # NullText =>
                 \E s \in subjects :
                    SubjectKey(s) = <<r.subject_id, r.semester, r.department>>
        /\ \A s \in subjects : s.subject_name = s.subject_id

(* A timetable push succeeded on a store that holds a slot saved without a *)
(* subject beside a slot with one, and the catalog has an entry.           *)
C20_Witness ==
    /\ resp.op = "sync_timetable" /\ resp.status = "success"
    /\ \E r \in timetable_slots : r.subject_id = NullText
    /\ \E r \in timetable_slots : r.subject_id # NullText
    /\ subjects # {}

(* A catalog entry with a name and a type of its own, as the migration of  *)
(* the desktop database inserts them.                                      *)
RichEntry ==
    [subject_id |-> "CS101", subject_name |-> "Algorithms", department |-> "CSE",
     semester |-> "3", type |-> "Lab"]

(* The stored catalog, and the stored catalog with the rich entry under    *)
(* its key.                                                                *)
Catalogs ==
    {subjects,
     {s \in subjects : SubjectKey(s) # SubjectKey(RichEntry)} \cup {RichEntry}}

(* C21: the derivation of the subjects catalog, run on any stored          *)
(* timetable, keeps every entry the catalog had exactly as it was (none    *)
(* deleted, no name or type changed), adds entries only under keys the     *)
(* catalog lacked, and run a second time on the same timetable adds        *)
(* nothing.                                                                *)
C21_AdditiveIdempotent ==
    \A pre \in Catalogs : \A out \in AutoHealSubjects(pre, timetable_slots) :
        /\ pre \subseteq out
        /\ \A s \in out \ pre : \A q \in pre : SubjectKey(q) # SubjectKey(s)
        /\ AutoHealSubjects(out, timetable_slots) = {out}

(* The catalog has the entry of one stored slot and lacks the entry of     *)
(* another: the derivation has something to keep and something to add.     *)
C21_Witness ==
    /\ \E r \in timetable_slots : \E s \in subjects :
          SubjectKey(s) = <<r.subject_id, r.semester, r.department>>
    /\ \E r \in timetable_slots :
          /\ r.subject_id # NullText
          /\ \A s \in subjects :
                SubjectKey(s) # <<r.subject_id, r.semester, r.department>>

(* C22: every stored student and timetable slot has a version of at least  *)
(* 1; a row stored under a key the table did not hold is stored at version *)
(* 1, and a write that changes the row of a stored key stores a strictly   *)
(* greater version.                                                        *)
C22_VersionDomain ==
    [][ /\ \A q \in students' :
              /\ q.version >= 1
              /\ (\A r \in students : r.sbrn # q.sbrn) => q.version = 1
              /\ \A r \in students :
                    (r.sbrn = q.sbrn /\ r # q) => q.version > r.version
        /\ \A q \in timetable_slots' :
              /\ q.version >= 1
              /\ (\A r \in timetable_slots : SlotKey(r) # SlotKey(q))
                    => q.version = 1
              /\ \A r \in timetable_slots :
                    (r.id = q.id /\ SlotKey(r) = SlotKey(q) /\ r # q)
                    => q.version > r.version
      ]_vars

(* The table a pull endpoint reads. *)
TableOf(op) ==
    IF op = "sync_students_from_cloud" THEN students
    ELSE IF op = "get_timetable_sync" THEN timetable_slots
    ELSE attendance_daily

(* C23: when a pull has returned a watermark (latest_sync) and nothing has *)
(* been written since, a pull of the same endpoint that passes that        *)
(* watermark succeeds and returns no record.                               *)
C23_PullWithReturnedWatermark ==
    (PullSucceeded /\ resp.latest_sync # NoParam) =>
        \A response \in PullHandler(resp.op, TableOf(resp.op),
                                    resp.latest_sync, "none") :
            /\ response.status = "success"
            /\ response.records = <<>>
            /\ response.n = 0

(* A pull returned two records stamped at different times, and with them a *)
(* watermark.                                                              *)
C23_Witness ==
    /\ PullSucceeded /\ resp.latest_sync # NoParam
    /\ Len(resp.records) = 2
    /\ resp.records[1].last_updated # resp.records[2].last_updated

(* C24: a student record that the push accepts (its key is absent or its   *)
(* version is greater than the stored one) is stored with the last_updated *)
(* it carries, or with the authority's time of the push when it carries    *)
(* none; a record dropped as stale leaves the stored row, its last_updated *)
(* included, as it was.                                                    *)
C24_TimestampRecorded ==
    \A rec \in {x \in StudentRecords : CarriesSbrn(x)} :
        LET out == sync_students(students, now, <<rec>>, "none")
            old == {r \in students : r.sbrn = rec.sbrn}
            new == {r \in out.students : r.sbrn = rec.sbrn}
            accepted == \A r \in old :
                           r.version < Get(rec, "version", DefaultVersion)
        IN  IF accepted
            THEN \A r \in new :
                    r.last_updated = (IF "last_updated" \in rec.present
                                      THEN rec.last_updated ELSE now)
            ELSE new = old

(* A student push succeeded and a stored row carries a client's timestamp  *)
(* that is ahead of the authority's clock, beside a row stamped by the     *)
(* authority.                                                              *)
C24_Witness ==
    /\ resp.op = "sync_students" /\ resp.status = "success"
    /\ \E r \in students : r.last_updated > now
    /\ \E r \in students : r.last_updated = now

(* C25: every step that serves a pull (GET /sync/students, /sync/timetable, *)
(* /sync/attendance) or a lookup (GET /departments, /semesters, /timetable, *)
(* /subjects-by-date, /students, /attendance-exists, /attendance) leaves    *)
(* students, timetable_slots, subjects and attendance_daily as they were,   *)
(* whether the request succeeded or failed.                                 *)
C25_ReadOnlyObservers ==
    [][ resp'.op \in PullOps \cup LookupOps =>
           /\ students' = students
           /\ timetable_slots' = timetable_slots
           /\ subjects' = subjects
           /\ attendance_daily' = attendance_daily
      ]_vars

(* The monthly attendance lookup returned a row joined from stored         *)
(* attendance and a stored student.                                        *)
C25_Witness ==
    /\ resp.op = "get_attendance" /\ resp.status = "success" /\ resp.n >= 1
    /\ students # {} /\ attendance_daily # {} /\ timetable_slots # {}

(* C26: with mark_attendance transactions and attendance pulls             *)
(* interleaved in any way, a client that chains its pulls by the returned  *)
(* latest_sync misses no committed attendance row: at every moment each    *)
(* stored row has been handed to the client or is still after the client's *)
(* watermark, so that a later pull returns it.                             *)
C26_NoCommittedWriteSkipped ==
    workload = "marking" =>
        \A r \in attendance_daily :
           \/ AttendanceJsonRow(r) \in received
           \/ cursor = NoParam
           \/ r.last_updated > fromisoformat(cursor)

(* Requests against the period gate: spellings of the department that      *)
(* differ in case and leading blank, sections "all" in two spellings, the  *)
(* stored section in another case, and a section no slot has.              *)
GateRequests ==
    [department : {"CSE", " cse"}, semester : Semesters,
     section : {"ALL", "All", "a", "B"}, subject : {"CS101", "cs102"},
     date : AttDates,
     attendance : {<<[sbrn |-> "S001", present |-> TRUE]>>,
                   <<[sbrn |-> "S001", present |-> FALSE],
                     [sbrn |-> "S002", present |-> TRUE]>>}]

(* Text compared trimmed and without case. *)
SameText(a, b) == Lower(Trim(a)) = Lower(Trim(b))

(* Does a stored slot match the request, as the gate is described. *)
SlotMatches(t, data) ==
    /\ SameText(t.department, data.department)
    /\ SameText(t.semester, data.semester)
    /\ SameText(t.subject_id, data.subject)
    /\ DayShort(data.date) # "" /\ SameText(t.day, DayShort(data.date))
    /\ (Lower(data.section) # "all" => SameText(t.section, data.section))

(* C27: mark_attendance changes attendance_daily only if a stored slot     *)
(* matches the request's department, semester, subject and weekday         *)
(* (trimmed, without case) and, unless the request's section lowercased is *)
(* "all", its section; a request with a readable date and no such slot is  *)
(* answered no_period and changes nothing; with such a slot it is saved,   *)
(* and every row it writes carries the request's section as sent.          *)
C27_PeriodGate ==
    \A data \in GateRequests :
        LET gate == \E t \in timetable_slots : SlotMatches(t, data)
            keys == {<<data.attendance[i].sbrn, data.subject, data.semester,
                       data.section, data.date>> : i \in DOMAIN data.attendance}
        IN  /\ \A fault \in AttendanceFaults :
                  mark_attendance(attendance_daily, timetable_slots, now,
                                  data, fault).attendance_daily # attendance_daily
                  => gate
            /\ LET out == mark_attendance(attendance_daily, timetable_slots,
                                          now, data, "none")
               IN  IF gate
                   THEN /\ out.resp.status = "saved"
                        /\ \A k \in keys :
                              \E r \in out.attendance_daily : AttKey(r) = k
                        /\ \A r \in out.attendance_daily \ attendance_daily :
                              r.section = data.section
                   ELSE /\ out.attendance_daily = attendance_daily
                        /\ DayShort(data.date) # ""
                              => out.resp.status = "no_period"

(* Attendance was saved under section "a" as sent, admitted by a slot      *)
(* whose stored section is "A".                                            *)
C27_Witness ==
    /\ resp.op = "mark_attendance" /\ resp.status = "saved"
    /\ \E r \in attendance_daily : r.section = "a"
    /\ \A t \in timetable_slots : t.section = "A"

(* C28: a mark_attendance that changes attendance_daily answers saved and  *)
(* leaves one row per (sbrn, subject, semester, section, class_date);      *)
(* every row whose attended flag it overwrote carries a last_updated that  *)
(* the client's next incremental attendance pull returns; a                *)
(* mark_attendance answered with an error stores nothing.                  *)
C28_MarkUpsert ==
    [][resp'.op = "mark_attendance" =>
          /\ resp'.status # "saved" => attendance_daily' = attendance_daily
          /\ \A r, q \in attendance_daily' : AttKey(r) = AttKey(q) => r = q
          /\ \A r \in attendance_daily' \ attendance_daily :
                (\E q \in attendance_daily :
                    AttKey(q) = AttKey(r) /\ q.attended # r.attended) =>
                \E pull \in sync_attendance_from_cloud(attendance_daily',
                                                       cursor, "none") :
                   \E i \in DOMAIN pull.records :
                      pull.records[i] = AttendanceJsonRow(r)
      ]_vars

(* Is the slot, or the pulled record, one of (department, semester) when   *)
(* both are compared without case.                                         *)
OfDepartmentSemester(r, department, semester) ==
    /\ Lower(r.department) = Lower(department)
    /\ Lower(r.semester) = Lower(semester)

(* C29: a DELETE /sync/timetable leaves students, attendance_daily and the *)
(* subjects catalog unchanged.  For every (department, semester) it may be *)
(* called with, a served call answers deleted and leaves exactly the       *)
(* stored slots whose department or semester differs, without case, from   *)
(* the request's, and a timetable pull with any watermark then returns no  *)
(* record of that department and semester; the step taken is one of these  *)
(* calls, or a failed call that leaves the slots unchanged.                *)
C29_ResetFrame ==
    [][resp'.op = "reset_timetable_from_desktop" =>
          /\ students' = students
          /\ attendance_daily' = attendance_daily
          /\ subjects' = subjects
          /\ \A q \in ResetParams :
                LET out == reset_timetable_from_desktop(timetable_slots,
                                                        q[1], q[2], "none")
                IN  /\ out.resp.status = "deleted"
                    /\ out.timetable_slots =
                          {t \in timetable_slots :
                              ~OfDepartmentSemester(t, q[1], q[2])}
                    /\ \A p \in PullRequests :
                       \A pull \in get_timetable_sync(out.timetable_slots,
                                                      p[1], p[2]) :
                       \A i \in DOMAIN pull.records :
                          ~OfDepartmentSemester(pull.records[i], q[1], q[2])
          /\ IF resp'.status = "deleted"
             THEN \E q \in ResetParams :
                     timetable_slots' =
                        reset_timetable_from_desktop(timetable_slots, q[1], q[2],
                                                     "none").timetable_slots
             ELSE timetable_slots' = timetable_slots
      ]_vars

(* The slots that admitted the stored attendance were removed; the         *)
(* attendance rows and the subjects catalog are still there.               *)
C29_Witness ==
    /\ resp.op = "reset_timetable_from_desktop" /\ resp.status = "deleted"
    /\ timetable_slots = {}
    /\ attendance_daily # {} /\ subjects # {}

====
